---- MODULE Spec2Model ----
(***************************************************************************)
(* Model of the websocket relay of src/src/aframe_mcp/bridge_server.py     *)
(* (class BridgeServer).  One asyncio task runs per connection; a task     *)
(* runs without interruption from one `await` to the next, so every action *)
(* below is the code between two consecutive awaits of one handler.        *)
(* An `await websocket.send(...)` may suspend (back-pressure) and raises    *)
(* ConnectionClosed when the peer is gone; acquiring a free asyncio.Lock    *)
(* and leaving an `async with` block do not suspend.                       *)
(***************************************************************************)
EXTENDS Integers, Sequences, FiniteSets, TLC

\* ---- bounds of the model ------------------------------------------------
MaxScenes == 3      \* scene connections that are ever opened
MaxInputs == 6      \* events of the peers: handshakes, frames and closes

Scenes == 1 .. MaxScenes
Clients == {"A", "B"}
ReqIds == {"r1", "r2"}
Others == {"X"}     \* connections whose handshake does not name a role served

NoScene == 0        \* Python None in the scene slot / lock owner
NoClient == "-"     \* no entry under a key of the pending table
NoId == ""          \* message.get("requestId") is None or empty
NoCode == 0         \* the handler has not closed the connection

\* ---- messages -----------------------------------------------------------
\* A raw frame: `parses` is whether json.loads accepts it, `object` whether
\* the value it yields is a dict, the only kind of value with a .get method.
Msg(r, st, m) ==
    [parses |-> TRUE, object |-> TRUE, requestId |-> r, status |-> st, message |-> m]
Garbage ==
    [parses |-> FALSE, object |-> FALSE, requestId |-> NoId, status |-> "", message |-> ""]
\* valid JSON that is not an object, such as `[]` or `42`
NotObject ==
    [parses |-> TRUE, object |-> FALSE, requestId |-> NoId, status |-> "", message |-> ""]
NoMsg ==
    [parses |-> FALSE, object |-> FALSE, requestId |-> NoId, status |-> "", message |-> "nomsg"]

\* frames a scene peer may send in the steady state
SceneFrames == {Garbage, NotObject, Msg(NoId, "ok", "event")}
                 \cup {Msg(r, "ok", "result") : r \in ReqIds}
\* frames a control peer may send in the steady state
ClientFrames == {Garbage, NotObject, Msg(NoId, "cmd", "ping")}
                  \cup {Msg(r, "cmd", "ping") : r \in ReqIds}

\* relay-authored replies
AlreadyConnected == Msg(NoId, "error", "A scene is already connected")
InvalidPayload == Msg(NoId, "error", "Invalid command payload")
MissingRequestId == Msg(NoId, "error", "Commands must include requestId")
NoSceneError(r) == Msg(r, "error", "No A-Frame scene is connected")
SceneDisconnected(r) == Msg(r, "error", "Scene disconnected")
TimedOut(r) == Msg(r, "error", "Timed out waiting for scene response")

\* ---- asyncio.Future -----------------------------------------------------
NoFuture == [state |-> "none", result |-> NoMsg]
NewFuture == [state |-> "pending", result |-> NoMsg]
Cancelled == [state |-> "cancelled", result |-> NoMsg]
Resolved(m) == [state |-> "done", result |-> m]
FutureDone(f) == f.state \in {"done", "cancelled"}

\* handshake.get("sceneId") of each scene connection: absent on odd ones
HandshakeSceneId(s) == IF s % 2 = 1 THEN "" ELSE "lab"
SceneIdOf(s) == IF HandshakeSceneId(s) = "" THEN "default" ELSE HandshakeSceneId(s)

VARIABLES
    scene,       \* self.scene: the admitted scene connection or NoScene
    scene_id,    \* self.scene_id
    pending,     \* self.pending: requestId -> owning client (PendingMessage.client)
    fut,         \* the future of each control handler's current command
    lockOwner,   \* scene handler holding self.scene_lock
    lockQueue,   \* scene handlers waiting for self.scene_lock, FIFO
    spc,         \* position of each scene handler
    sconn,       \* state of each scene connection
    sack,        \* the admission reply sent to each scene connection, "" before it
    mpc,         \* position of each control handler
    cconn,       \* state of each control connection
    req,         \* request_id of the command a control handler is processing
    dest,        \* self.scene as evaluated by the forward of line 160
    got,         \* replies sent to the control client for the frame being processed
    warned,      \* the last logger.warning of the scene read loop, with its id
    hpc,         \* position of the handler of each other connection
    hfail,       \* what went wrong with the handshake of each other connection
    hcode,       \* the close code the handler gave each other connection
    inputs       \* number of events of the peers so far

vars == <<scene, scene_id, pending, fut, lockOwner, lockQueue, spc, sconn, sack,
          mpc, cconn, req, dest, got, warned, hpc, hfail, hcode, inputs>>

sceneVars == <<spc, sconn, sack>>
lockVars == <<lockOwner, lockQueue>>
slotVars == <<scene, scene_id>>
clientVars == <<mpc, cconn, req, dest, got>>
otherVars == <<hpc, hfail, hcode>>

Init ==
    /\ scene = NoScene
    /\ scene_id = "None"
    /\ pending = [r \in ReqIds |-> NoClient]
    /\ fut = [c \in Clients |-> NoFuture]
    /\ lockOwner = NoScene
    /\ lockQueue = <<>>
    /\ spc = [s \in Scenes |-> "start"]
    /\ sconn = [s \in Scenes |-> "open"]
    /\ sack = [s \in Scenes |-> ""]
    /\ mpc = [c \in Clients |-> "start"]
    /\ cconn = [c \in Clients |-> "open"]
    /\ req = [c \in Clients |-> NoId]
    /\ dest = [c \in Clients |-> NoScene]
    /\ got = [c \in Clients |-> <<>>]
    /\ warned = <<"", NoId>>
    /\ hpc = [x \in Others |-> "start"]
    /\ hfail = [x \in Others |-> ""]
    /\ hcode = [x \in Others |-> NoCode]
    /\ inputs = 0

\* ---- self.scene_lock (asyncio.Lock: FIFO, no suspension when free) ------
LockFree == lockOwner = NoScene /\ lockQueue = <<>>
LockGranted(s) == lockOwner = NoScene /\ lockQueue # <<>> /\ Head(lockQueue) = s

\* ---- _flush_pending ------------------------------------------------------
\* FlushFutures for a flush that reaches every future waited on, in the table
\* or not
FlushFuturesAll(p, f) ==
    [c \in Clients |->
        IF f[c].state = "pending" THEN Resolved(SceneDisconnected(req[c])) ELSE f[c]]

\* the futures after the loop of lines 200-209 over the table p
FlushFutures(p, f) ==
    [c \in Clients |->
        IF \E r \in ReqIds : p[r] = c /\ ~FutureDone(f[c])
        THEN Resolved(SceneDisconnected(CHOOSE r \in ReqIds : p[r] = c))
        ELSE f[c]]

\* FlushTable for a flush that leaves the keys in the table
FlushTableKeeping(p) == p

\* the table after the loop: every key popped
FlushTable(p) == [r \in ReqIds |-> NoClient]

\* ---- _register_scene -----------------------------------------------------
\* Admit without the occupancy test of line 70: the newcomer evicts the incumbent
AdmitEvicting(s) ==
    /\ scene' = s
    /\ scene_id' = SceneIdOf(s)
    /\ lockOwner' = NoScene
    /\ spc' = [spc EXCEPT ![s] = "ready_send"]

\* lines 70-82, entered with the lock held by s
Admit(s) ==
    IF scene # NoScene
    THEN /\ spc' = [spc EXCEPT ![s] = "reject_send"]
         /\ lockOwner' = s
         /\ UNCHANGED slotVars
    ELSE /\ scene' = s
         /\ scene_id' = SceneIdOf(s)
         /\ lockOwner' = NoScene
         /\ spc' = [spc EXCEPT ![s] = "ready_send"]

\* handler lines 45-60 and the `async with` of line 69
\* connections are numbered in the order in which they arrive
SceneHandshake(s) ==
    /\ spc[s] = "start" /\ sconn[s] = "open"
    /\ \A o \in Scenes : o < s => spc[o] # "start"
    /\ IF LockFree
       THEN Admit(s) /\ UNCHANGED lockQueue
       ELSE /\ lockQueue' = Append(lockQueue, s)
            /\ spc' = [spc EXCEPT ![s] = "lock_admit"]
            /\ UNCHANGED <<slotVars, lockOwner>>
    /\ UNCHANGED <<pending, fut, sconn, sack, clientVars, warned, otherVars>>
    /\ inputs < MaxInputs
    /\ inputs' = inputs + 1

\* line 69 resumed once the lock is handed over
SceneLockAdmit(s) ==
    /\ spc[s] = "lock_admit" /\ LockGranted(s)
    /\ lockQueue' = Tail(lockQueue)
    /\ Admit(s)
    /\ UNCHANGED <<pending, fut, sconn, sack, clientVars, warned, otherVars, inputs>>

\* lines 71-78: the rejection payload, sent while holding the lock
SceneRejectSend(s) ==
    /\ spc[s] = "reject_send"
    /\ IF sconn[s] = "open"
       THEN /\ sack' = [sack EXCEPT ![s] = AlreadyConnected.status]
            /\ spc' = [spc EXCEPT ![s] = "reject_close"]
            /\ UNCHANGED lockOwner
       ELSE /\ spc' = [spc EXCEPT ![s] = "done"]
            /\ lockOwner' = NoScene
            /\ UNCHANGED sack
    /\ UNCHANGED <<slotVars, pending, fut, lockQueue, sconn, clientVars, warned, otherVars, inputs>>

\* SceneRejectClose for a rejection that clears the slot as lines 110-111
\* do, although another connection occupies it
SceneRejectCloseClearing(s) ==
    /\ spc[s] = "reject_close"
    /\ scene' = NoScene
    /\ scene_id' = "None"
    /\ sconn' = [sconn EXCEPT ![s] = "closed"]
    /\ spc' = [spc EXCEPT ![s] = "done"]
    /\ lockOwner' = NoScene
    /\ UNCHANGED <<pending, fut, lockQueue, sack, clientVars, warned, otherVars, inputs>>

\* lines 79-80: close(4003) and return, releasing the lock
SceneRejectClose(s) ==
    /\ spc[s] = "reject_close"
    /\ sconn' = [sconn EXCEPT ![s] = "closed"]
    /\ spc' = [spc EXCEPT ![s] = "done"]
    /\ lockOwner' = NoScene
    /\ UNCHANGED <<slotVars, pending, fut, lockQueue, sack, clientVars, warned, otherVars, inputs>>

\* lines 84-85: the ready acknowledgement, outside the try of line 87
SceneReadySend(s) ==
    /\ spc[s] = "ready_send"
    /\ IF sconn[s] = "open"
       THEN /\ sack' = [sack EXCEPT ![s] = "ready"]
            /\ spc' = [spc EXCEPT ![s] = "loop"]
       ELSE /\ spc' = [spc EXCEPT ![s] = "done"]
            /\ UNCHANGED sack
    /\ UNCHANGED <<slotVars, pending, fut, lockVars, sconn, clientVars, warned, otherVars, inputs>>

\* lines 110-112 with the lock held, over table p and futures f: the slot is
\* cleared, the lock released and the table flushed without suspension
ClearAndFlush(s, p, f, end) ==
    /\ scene' = NoScene
    /\ scene_id' = "None"
    /\ fut' = FlushFutures(p, f)
    /\ pending' = FlushTable(p)
    /\ spc' = [spc EXCEPT ![s] = end]
    /\ sconn' = [sconn EXCEPT ![s] = "closed"]

\* lines 108-112: the finally block; it queues for the lock when the lock is
\* taken.  end is "done", or "crashed" when an exception is propagating
Finally(s, p, f, end) ==
    IF LockFree
    THEN ClearAndFlush(s, p, f, end) /\ UNCHANGED lockVars
    ELSE /\ lockQueue' = Append(lockQueue, s)
         /\ spc' = [spc EXCEPT ![s] = IF end = "done" THEN "lock_final" ELSE "lock_crashed"]
         /\ fut' = f
         /\ pending' = p
         /\ UNCHANGED <<slotVars, lockOwner, sconn>>

\* Pop for a handler that forgets to pop
PopNothing(p, r) == p

\* lines 100, 171, 186, 190: the table after self.pending.pop(request_id, None)
Pop(p, r) == [p EXCEPT ![r] = NoClient]

\* Lookup that falls back on any entry when the id is unknown
LookupAny(p, r) ==
    IF p[r] # NoClient THEN p[r]
    ELSE IF \E q \in ReqIds : p[q] # NoClient
         THEN p[CHOOSE q \in ReqIds : p[q] # NoClient]
         ELSE NoClient

\* line 100: the entry self.pending.pop(request_id, None) returns, NoClient for None
Lookup(p, r) == p[r]

\* lines 88-105: one frame read from the admitted scene
SceneRecv(s, m) ==
    /\ spc[s] = "loop" /\ sconn[s] = "open"
    /\ m \in SceneFrames
    /\ IF ~m.parses
       THEN /\ warned' = <<"Invalid message from scene", NoId>>
            /\ UNCHANGED <<slotVars, pending, fut, lockVars, spc, sconn>>
       ELSE IF ~m.object
       THEN \* line 95: message.get raises AttributeError: only the finally runs
            /\ Finally(s, pending, fut, "crashed")
            /\ UNCHANGED warned
       ELSE IF m.requestId = NoId
       THEN /\ warned' = <<"Scene message missing requestId", NoId>>
            /\ UNCHANGED <<slotVars, pending, fut, lockVars, spc, sconn>>
       ELSE IF Lookup(pending, m.requestId) = NoClient
       THEN /\ warned' = <<"No pending request for id", m.requestId>>
            /\ UNCHANGED <<slotVars, pending, fut, lockVars, spc, sconn>>
       ELSE LET owner == Lookup(pending, m.requestId)
            IN  IF ~FutureDone(fut[owner])
                THEN /\ pending' = Pop(pending, m.requestId)
                     /\ fut' = [fut EXCEPT ![owner] = Resolved(m)]
                     /\ UNCHANGED <<slotVars, lockVars, spc, sconn, warned>>
                ELSE \* set_result raises InvalidStateError: only the finally runs
                     /\ Finally(s, Pop(pending, m.requestId), fut, "crashed")
                     /\ UNCHANGED warned
    /\ UNCHANGED <<sack, clientVars, otherVars>>
    /\ inputs < MaxInputs
    /\ inputs' = inputs + 1

\* lines 106-112: the read loop ends because the connection closed
SceneLoopExit(s) ==
    /\ spc[s] = "loop" /\ sconn[s] = "closed"
    /\ Finally(s, pending, fut, "done")
    /\ UNCHANGED <<sack, clientVars, warned, otherVars, inputs>>

\* line 109 resumed once the lock is handed over, then lines 110-112
SceneLockFinal(s) ==
    /\ spc[s] \in {"lock_final", "lock_crashed"} /\ LockGranted(s)
    /\ lockQueue' = Tail(lockQueue)
    /\ ClearAndFlush(s, pending, fut, IF spc[s] = "lock_final" THEN "done" ELSE "crashed")
    /\ UNCHANGED <<lockOwner, sack, clientVars, warned, otherVars, inputs>>

\* the scene peer closes or loses its connection
SceneDisconnect(s) ==
    /\ spc[s] \notin {"start", "done", "crashed"} /\ sconn[s] = "open"
    /\ inputs < MaxInputs
    /\ inputs' = inputs + 1
    /\ sconn' = [sconn EXCEPT ![s] = "closed"]
    /\ UNCHANGED <<slotVars, pending, fut, lockVars, spc, sack, clientVars, warned, otherVars>>

\* ---- _register_mcp -------------------------------------------------------
McpAck == Msg(NoId, "ok", "")

\* McpFinally without the ownership test of line 194: every entry is popped
\* and every future cancelled
McpFinallyAll(c, p, f) ==
    /\ pending' = [r \in ReqIds |-> NoClient]
    /\ fut' = [b \in Clients |->
                 IF (\E r \in ReqIds : p[r] = b) /\ ~FutureDone(f[b]) THEN Cancelled ELSE f[b]]
    /\ mpc' = [mpc EXCEPT ![c] = "done"]

\* lines 193-197 over table p and futures f: the entries owned by c are
\* popped and their futures cancelled; the handler ends
McpFinally(c, p, f) ==
    /\ pending' = [r \in ReqIds |-> IF p[r] = c THEN NoClient ELSE p[r]]
    /\ fut' = [f EXCEPT ![c] = IF (\E r \in ReqIds : p[r] = c) /\ ~FutureDone(f[c])
                               THEN Cancelled ELSE f[c]]
    /\ mpc' = [mpc EXCEPT ![c] = "done"]

\* handler lines 45-62: a handshake with role "mcp"
\* (control connection A is the one that arrives first)
McpHandshake(c) ==
    /\ mpc[c] = "start" /\ cconn[c] = "open"
    /\ c = "B" => mpc["A"] # "start"
    /\ mpc' = [mpc EXCEPT ![c] = "ack_send"]
    /\ UNCHANGED <<slotVars, pending, fut, lockVars, sceneVars, cconn, req, dest, got, warned, otherVars>>
    /\ inputs < MaxInputs
    /\ inputs' = inputs + 1

\* lines 115-116: the acknowledgement, outside the try of line 117
McpAckSend(c) ==
    /\ mpc[c] = "ack_send"
    /\ IF cconn[c] = "open"
       THEN /\ got' = [got EXCEPT ![c] = <<McpAck>>]
            /\ mpc' = [mpc EXCEPT ![c] = "idle"]
       ELSE /\ mpc' = [mpc EXCEPT ![c] = "done"]
            /\ UNCHANGED got
    /\ UNCHANGED <<slotVars, pending, fut, lockVars, sceneVars, cconn, req, dest, warned, otherVars, inputs>>

\* Readable for a handler that serves every frame in a task of its own
ReadableWhileWaiting(c) == mpc[c] \in {"idle", "wait"}

\* line 118: the handler reads its next frame only at the top of the loop
Readable(c) == mpc[c] = "idle"

\* lines 118-160 up to the first await: one frame read from the client
McpRecv(c, m) ==
    /\ Readable(c) /\ cconn[c] = "open"
    /\ m \in ClientFrames
    /\ got' = [got EXCEPT ![c] = <<>>]
    /\ req' = [req EXCEPT ![c] = m.requestId]
    /\ IF ~m.parses
       THEN /\ mpc' = [mpc EXCEPT ![c] = "invalid_send"]
            /\ UNCHANGED <<pending, fut, dest>>
       ELSE IF ~m.object
       THEN \* line 132: message.get raises AttributeError: only the finally runs
            /\ McpFinally(c, pending, fut)
            /\ UNCHANGED dest
       ELSE IF m.requestId = NoId
       THEN /\ mpc' = [mpc EXCEPT ![c] = "missing_send"]
            /\ UNCHANGED <<pending, fut, dest>>
       ELSE IF scene = NoScene
       THEN /\ mpc' = [mpc EXCEPT ![c] = "noscene_send"]
            /\ UNCHANGED <<pending, fut, dest>>
       ELSE /\ fut' = [fut EXCEPT ![c] = NewFuture]
            /\ pending' = [pending EXCEPT ![m.requestId] = c]
            /\ dest' = [dest EXCEPT ![c] = scene]
            /\ mpc' = [mpc EXCEPT ![c] = "forward"]
    /\ UNCHANGED <<slotVars, lockVars, sceneVars, cconn, warned, otherVars>>
    /\ inputs < MaxInputs
    /\ inputs' = inputs + 1

\* Continue with the `continue` of line 154 missing: after the no-scene reply
\* the handler goes on as if the command had been forwarded
ContinueAfterNoSceneMissing(c) == IF mpc[c] = "noscene_send" THEN "wait" ELSE "idle"

\* Continue with the `continue` of line 172 missing: after the forward-failure
\* reply the handler goes on to wait for the future
ContinueAfterFailureMissing(c) == IF mpc[c] = "fail_send" THEN "wait" ELSE "idle"

\* lines 130, 142, 154, 172, 187 and the end of the loop body: `continue`
Continue(c) == "idle"

\* the reply each suspended send of the command loop carries
ReplyAt(c) ==
    CASE mpc[c] = "invalid_send" -> InvalidPayload
      [] mpc[c] = "missing_send" -> MissingRequestId
      [] mpc[c] = "noscene_send" -> NoSceneError(req[c])
      [] mpc[c] = "fail_send" -> SceneDisconnected(req[c])
      [] mpc[c] = "timeout_send" -> TimedOut(req[c])
      [] mpc[c] = "response_send" -> fut[c].result
      [] OTHER -> NoMsg

\* lines 122-130, 134-142, 145-154: a local error is sent, then `continue`
McpLocalSend(c) ==
    /\ mpc[c] \in {"invalid_send", "missing_send", "noscene_send"}
    /\ IF cconn[c] = "open"
       THEN /\ got' = [got EXCEPT ![c] = Append(@, ReplyAt(c))]
            /\ mpc' = [mpc EXCEPT ![c] = Continue(c)]
            /\ UNCHANGED <<pending, fut>>
       ELSE /\ McpFinally(c, pending, fut)
            /\ UNCHANGED got
    /\ UNCHANGED <<slotVars, lockVars, sceneVars, cconn, req, dest, warned, otherVars, inputs>>

\* McpForward without the except clause of line 161: a failed forward goes
\* unnoticed and the handler waits for the future
McpForwardUnnoticed(c) ==
    /\ mpc[c] = "forward"
    /\ mpc' = [mpc EXCEPT ![c] = "wait"]
    /\ UNCHANGED <<slotVars, pending, fut, lockVars, sceneVars, cconn, req, dest, got, warned, otherVars, inputs>>

\* lines 159-161: the forward to the connection that was in the slot
McpForward(c) ==
    /\ mpc[c] = "forward"
    /\ mpc' = [mpc EXCEPT ![c] = IF sconn[dest[c]] = "open" THEN "wait" ELSE "fail_send"]
    /\ UNCHANGED <<slotVars, pending, fut, lockVars, sceneVars, cconn, req, dest, got, warned, otherVars, inputs>>

\* line 175: wait_for returns the result of the future
McpResponse(c) ==
    /\ mpc[c] = "wait" /\ fut[c].state = "done"
    /\ mpc' = [mpc EXCEPT ![c] = "response_send"]
    /\ UNCHANGED <<slotVars, pending, fut, lockVars, sceneVars, cconn, req, dest, got, warned, otherVars, inputs>>

\* McpTimeout for a bare `await future`: no timer ever fires
McpTimeoutNever(c) ==
    /\ FALSE
    /\ UNCHANGED vars

\* lines 175-176: RESPONSE_TIMEOUT elapses; wait_for cancels the future
McpTimeout(c) ==
    /\ mpc[c] = "wait" /\ fut[c].state = "pending"
    /\ fut' = [fut EXCEPT ![c] = Cancelled]
    /\ mpc' = [mpc EXCEPT ![c] = "timeout_send"]
    /\ UNCHANGED <<slotVars, pending, lockVars, sceneVars, cconn, req, dest, got, warned, otherVars, inputs>>

\* lines 162-172, 177-187, 189-190: the reply is sent, then the key popped
McpReplySend(c) ==
    /\ mpc[c] \in {"fail_send", "timeout_send", "response_send"}
    /\ IF cconn[c] = "open"
       THEN /\ got' = [got EXCEPT ![c] = Append(@, ReplyAt(c))]
            /\ pending' = Pop(pending, req[c])
            /\ mpc' = [mpc EXCEPT ![c] = Continue(c)]
            /\ UNCHANGED fut
       ELSE /\ McpFinally(c, pending, fut)
            /\ UNCHANGED got
    /\ UNCHANGED <<slotVars, lockVars, sceneVars, cconn, req, dest, warned, otherVars, inputs>>

\* lines 118, 191-197: the read loop ends because the client is gone
McpLoopExit(c) ==
    /\ mpc[c] = "idle" /\ cconn[c] = "closed"
    /\ McpFinally(c, pending, fut)
    /\ UNCHANGED <<slotVars, lockVars, sceneVars, cconn, req, dest, got, warned, otherVars, inputs>>

\* the control peer closes or loses its connection
McpDisconnect(c) ==
    /\ mpc[c] \notin {"start", "done"} /\ cconn[c] = "open"
    /\ inputs < MaxInputs
    /\ inputs' = inputs + 1
    /\ cconn' = [cconn EXCEPT ![c] = "closed"]
    /\ UNCHANGED <<slotVars, pending, fut, lockVars, sceneVars, mpc, req, dest, got, warned, otherVars>>

\* ---- handler: handshakes that name no role served -------------------------
\* CloseCode with one code for every failure class
CloseCodeSame(k) == 4000

\* lines 47, 55, 64: the code of websocket.close for each failure class
CloseCode(k) ==
    CASE k = "timeout" -> 4000
      [] k = "invalid" -> 4001
      [] k = "unknown role" -> 4002

\* lines 45-46, 53-54, 58-63: no handshake within 5 seconds, a handshake
\* json.loads rejects, or a role that is neither "scene" nor "mcp"
HandshakeFail(x, k) ==
    /\ hpc[x] = "start"
    /\ k \in {"timeout", "invalid", "unknown role"}
    /\ hfail' = [hfail EXCEPT ![x] = k]
    /\ hpc' = [hpc EXCEPT ![x] = "closing"]
    /\ UNCHANGED <<slotVars, pending, fut, lockVars, sceneVars, clientVars, warned, hcode>>
    /\ inputs < MaxInputs
    /\ inputs' = inputs + 1

\* line 58: the handshake is valid JSON but no object; handshake.get raises
\* AttributeError and the handler ends without closing the connection itself
HandshakeNotObject(x) ==
    /\ hpc[x] = "start"
    /\ hfail' = [hfail EXCEPT ![x] = "not an object"]
    /\ hpc' = [hpc EXCEPT ![x] = "crashed"]
    /\ UNCHANGED <<slotVars, pending, fut, lockVars, sceneVars, clientVars, warned, hcode>>
    /\ inputs < MaxInputs
    /\ inputs' = inputs + 1

\* lines 49-50: the peer went away before any handshake
HandshakeGone(x) ==
    /\ hpc[x] = "start"
    /\ hfail' = [hfail EXCEPT ![x] = "gone"]
    /\ hpc' = [hpc EXCEPT ![x] = "done"]
    /\ UNCHANGED <<slotVars, pending, fut, lockVars, sceneVars, clientVars, warned, hcode>>
    /\ inputs < MaxInputs
    /\ inputs' = inputs + 1

\* lines 47-48, 55-56, 64: websocket.close(code) completes and the handler returns
HandshakeClose(x) ==
    /\ hpc[x] = "closing"
    /\ hcode' = [hcode EXCEPT ![x] = CloseCode(hfail[x])]
    /\ hpc' = [hpc EXCEPT ![x] = "done"]
    /\ UNCHANGED <<slotVars, pending, fut, lockVars, sceneVars, clientVars, warned, hfail, inputs>>

\* ---- the relay -----------------------------------------------------------
SceneStep(s) ==
    \/ SceneHandshake(s)
    \/ SceneLockAdmit(s)
    \/ SceneRejectSend(s)
    \/ SceneRejectClose(s)
    \/ SceneReadySend(s)
    \/ \E m \in SceneFrames : SceneRecv(s, m)
    \/ SceneLoopExit(s)
    \/ SceneLockFinal(s)

McpStep(c) ==
    \/ McpHandshake(c)
    \/ McpAckSend(c)
    \/ \E m \in ClientFrames : McpRecv(c, m)
    \/ McpLocalSend(c)
    \/ McpForward(c)
    \/ McpResponse(c)
    \/ McpTimeout(c)
    \/ McpReplySend(c)
    \/ McpLoopExit(c)

OtherStep(x) ==
    \/ \E k \in {"timeout", "invalid", "unknown role"} : HandshakeFail(x, k)
    \/ HandshakeNotObject(x)
    \/ HandshakeGone(x)
    \/ HandshakeClose(x)

Next ==
    \/ \E x \in Others : OtherStep(x)
    \/ \E s \in Scenes : SceneStep(s)
    \/ \E s \in Scenes : SceneDisconnect(s)
    \/ \E c \in Clients : McpStep(c)
    \/ \E c \in Clients : McpDisconnect(c)

Spec == Init /\ [][Next]_vars

\* the resumptions of the handler of c that wait on no peer: a suspended
\* send returns or raises, a resolved future wakes its waiter, the timer of
\* wait_for fires
McpResume(c) ==
    \/ McpLocalSend(c)
    \/ McpForward(c)
    \/ McpResponse(c)
    \/ McpTimeout(c)
    \/ McpReplySend(c)

\* The event loop resumes every task that can run.
FairSpec == Spec /\ \A c \in Clients : WF_vars(McpResume(c))

TypeOK ==
    /\ scene \in Scenes \cup {NoScene}
    /\ pending \in [ReqIds -> Clients \cup {NoClient}]
    /\ \A c \in Clients : fut[c].state \in {"none", "pending", "done", "cancelled"}
    /\ lockOwner \in Scenes \cup {NoScene}
    /\ inputs \in 0 .. MaxInputs

\* ---- properties ----------------------------------------------------------
\* a frame that is a command: it parses and carries a requestId
IsCommand(c) == req[c] # NoId /\ mpc[c] \notin {"start", "ack_send"}
\* the handler of c is between reading a command and sending its reply
InFlight(c) ==
    mpc[c] \in {"noscene_send", "forward", "wait", "fail_send", "timeout_send", "response_send"}
\* the replies a command with id r can get
SceneReplies(r) == {m \in SceneFrames : m.requestId = r}
Answers(r) == SceneReplies(r) \cup {NoSceneError(r), TimedOut(r), SceneDisconnected(r)}
\* the entries of the table that c owns
Owned(c) == {r \in ReqIds : pending[r] = c}
\* scene handlers past admission that have not ended
Admitted == {s \in Scenes : spc[s] \in {"ready_send", "loop", "lock_final", "lock_crashed"}}
Ended(s) == spc[s] \in {"done", "crashed"}

\* C1: a control client is sent at most one reply for each command with a
\* requestId, whatever the interleaving of scene reply, timeout, failed
\* forward and flush; the reply carries the id of the command and is one of
\* the scene's reply, the timeout error, the disconnect error (or the
\* no-scene error), and a command whose handling is over got exactly one.
C1_AtMostOneReply ==
    \A c \in Clients :
        /\ Len(got[c]) <= 1
        /\ IsCommand(c) /\ Len(got[c]) = 1 => got[c][1] \in Answers(req[c])
        /\ IsCommand(c) /\ mpc[c] = "idle" => Len(got[c]) = 1

\* witness of C1: the timeout of a command fired, the scene's flush ran as
\* well, and the client holds the timeout error alone
C1_Witness ==
    \E c \in Clients :
        /\ mpc[c] = "idle" /\ IsCommand(c)
        /\ got[c] = <<TimedOut(req[c])>>
        /\ scene = NoScene
        /\ \E s \in Scenes : spc[s] = "done" /\ sack[s] = "ready"

\* C2: under FairSpec every command with a requestId read on a control
\* connection that stays open is eventually answered with one of the replies
\* of its id, whatever the scene does.
C2_EveryCommandAnswered ==
    \A c \in Clients :
        (InFlight(c) /\ IsCommand(c)) ~>
            \/ cconn[c] = "closed"
            \/ mpc[c] = "idle" /\ Len(got[c]) = 1 /\ got[c][1] \in Answers(req[c])

\* witness of C2: the scene went away while the command was in flight and the
\* client, still connected, holds the disconnect error
C2_Witness ==
    \E c \in Clients :
        /\ mpc[c] = "idle" /\ cconn[c] = "open"
        /\ IsCommand(c) /\ got[c] = <<SceneDisconnected(req[c])>>
        /\ fut[c] = Resolved(SceneDisconnected(req[c]))

\* C3: the handlers past admission are at most the one in the slot; a scene
\* handshake that finds the slot occupied leaves the slot and its sceneId
\* alone, is answered with the error and closed while it holds the lock
\* (never queued for the slot), and a command registered afterwards is
\* addressed to the connection in the slot.
C3_SlotKept ==
    /\ Admitted \subseteq {scene}
    /\ \A s \in Scenes :
          /\ spc[s] \in {"reject_send", "reject_close"} =>
                lockOwner = s /\ scene \notin {NoScene, s} /\ scene_id = SceneIdOf(scene)
          /\ spc[s] = "reject_close" => sack[s] = "error"
          /\ sack[s] = "error" => scene # s
    /\ \A c \in Clients : mpc[c] \in {"forward", "wait"} => sack[dest[c]] # "error"

\* witness of C3: a second scene was rejected and closed, after which a
\* command went to the incumbent, still in the slot, and its reply came back
C3_Witness ==
    \E s \in Scenes, c \in Clients :
        /\ spc[s] = "done" /\ sack[s] = "error" /\ sconn[s] = "closed"
        /\ scene # NoScene /\ scene < s /\ spc[scene] = "loop"
        /\ dest[c] = scene /\ mpc[c] = "idle"
        /\ got[c] \in {<<m>> : m \in SceneReplies(req[c])}

\* C4: the step that ends the handler of an admitted scene resolves the
\* future of every command that was forwarded and is still waited on with the
\* disconnect error of its own key, and leaves the table empty.
C4_TerminationFlushes ==
    [][\A s \in Scenes :
          (s \in Admitted /\ spc'[s] \in {"done", "crashed"}) =>
              /\ \A r \in ReqIds :
                    (/\ pending[r] # NoClient
                     /\ mpc[pending[r]] = "wait"
                     /\ fut[pending[r]] = NewFuture) =>
                        fut'[pending[r]] = Resolved(SceneDisconnected(r))
              /\ \A r \in ReqIds : pending'[r] # NoClient => mpc[pending'[r]] # "wait"]_vars

\* C5: once the handler of a scene has ended, the slot does not hold that
\* scene any more.
C5_SlotClearedOnClose == \A s \in Scenes : Ended(s) => scene # s

\* C6: a scene frame whose requestId has no entry changes neither the table,
\* nor a future, nor anything a control handler holds; a frame with id r
\* resolves only the future of the owner of the entry keyed r, whose command
\* bears r; and a scene reply sent to a control client bears the id of the
\* command that client is waiting on.
C6_MatchedById ==
    [][/\ \A s \in Scenes, m \in SceneFrames :
             SceneRecv(s, m) =>
                 /\ (m.parses /\ m.requestId # NoId /\ pending[m.requestId] = NoClient) =>
                        UNCHANGED <<pending, fut, clientVars, slotVars, spc>>
                 /\ \A c \in Clients :
                        fut'[c] = Resolved(m) /\ fut[c] # fut'[c] =>
                            pending[m.requestId] = c /\ req[c] = m.requestId
       /\ \A c \in Clients :
             (got'[c] # got[c] /\ Len(got'[c]) = 1 /\ got'[c][1] \in SceneFrames) =>
                 got'[c][1].requestId = req[c] /\ fut[c] = Resolved(got'[c][1])]_vars

\* witness of C6: a frame with an unknown id was dropped while the entry of
\* another id is in the table, its owner still waiting on an unresolved future
C6_Witness ==
    \E r \in ReqIds, q \in ReqIds, c \in Clients :
        /\ warned = <<"No pending request for id", r>>
        /\ q # r /\ pending[r] = NoClient
        /\ pending[q] = c /\ mpc[c] = "wait" /\ fut[c] = NewFuture

\* the timer of the current command of c has fired and no other command
\* has taken the key
TimerFired(c) ==
    \/ mpc[c] = "timeout_send" /\ pending[req[c]] \in {c, NoClient}
    \/ mpc[c] = "idle" /\ got[c] = <<TimedOut(req[c])>> /\ pending[req[c]] = NoClient

\* C7: a scene frame that bears the id of a command whose timer has fired is
\* discarded: the slot, the scene's connection and handler, the futures, the
\* replies and the other entries of the table stay as they were.
C7_LateReplyDiscarded ==
    [][\A s \in Scenes, m \in SceneFrames, c \in Clients :
          (SceneRecv(s, m) /\ IsCommand(c) /\ TimerFired(c) /\ m.requestId = req[c]) =>
              /\ UNCHANGED <<slotVars, sconn, spc, fut, got>>
              /\ \A r \in ReqIds \ {req[c]} : pending'[r] = pending[r]]_vars

\* a step of the timeout path of a's command, or the scene's frame for it
TimeoutPathStep(a) ==
    \/ McpTimeout(a)
    \/ mpc[a] = "timeout_send" /\ McpReplySend(a)
    \/ /\ mpc[a] = "timeout_send"
       /\ \E s \in Scenes, m \in SceneReplies(req[a]) : SceneRecv(s, m)

\* C8: the steps that the timeout of a's command brings about leave the
\* entry of every other command, keyed by its own id, in the table and its
\* future unresolved.
C8_TimeoutIsolated ==
    [][\A a \in Clients, b \in Clients :
          (/\ a # b /\ IsCommand(a) /\ IsCommand(b) /\ req[a] # req[b]
           /\ pending[req[b]] = b /\ fut[b] = NewFuture
           /\ TimeoutPathStep(a)) =>
              pending'[req[b]] = b /\ fut'[b] = NewFuture]_vars

\* C9: a command with a requestId read while the slot is empty registers no
\* entry and creates no future; its handling goes from the no-scene reply
\* straight back to the top of the loop, where the client holds the error
\* bearing the id, even when a scene was admitted in the meantime.
C9_NoSceneNotQueued ==
    [][\A c \in Clients :
          /\ \A m \in ClientFrames :
                (McpRecv(c, m) /\ m.parses /\ m.requestId # NoId /\ scene = NoScene) =>
                    mpc'[c] = "noscene_send" /\ UNCHANGED <<pending, fut, dest>>
          /\ (mpc[c] = "noscene_send" /\ mpc'[c] # "noscene_send") =>
                /\ Owned(c) = {} /\ pending' = pending
                /\ \/ mpc'[c] = "idle" /\ got'[c] = <<NoSceneError(req[c])>>
                   \/ mpc'[c] = "done" /\ cconn[c] = "closed" /\ got'[c] = <<>>]_vars

\* witness of C9: the client holds the no-scene error of its command while a
\* scene that connected later is serving and nothing is in the table
C9_Witness ==
    \E c \in Clients :
        /\ mpc[c] = "idle" /\ IsCommand(c)
        /\ got[c] = <<NoSceneError(req[c])>>
        /\ scene # NoScene /\ spc[scene] = "loop"
        /\ \A r \in ReqIds : pending[r] = NoClient

\* C10: a control handler reads a frame only when the previous one has been
\* answered and nothing of it is in flight or in the table; it never owns
\* more than one entry, and that entry is keyed by the id of the command in
\* flight; a handler about to forward can do so whatever the others wait on.
C10_Sequential ==
    [][\A c \in Clients :
          /\ \A m \in ClientFrames :
                McpRecv(c, m) => Len(got[c]) = 1 /\ ~InFlight(c) /\ Owned(c) = {}
          /\ Cardinality(Owned(c))' <= 1
          /\ (Owned(c) # {})' => (InFlight(c) /\ Owned(c) = {req[c]})'
          /\ mpc[c] = "forward" => ENABLED McpForward(c)]_vars

\* witness of C10: both control connections have a command forwarded and
\* unanswered at once.  No connection was closed, no scene frame dropped,
\* only one scene came and no other connection, so the six events are three
\* handshakes and three frames: one of the two connections is on its second
\* frame, read after the first was answered
C10_Witness ==
    /\ \A c \in Clients :
          mpc[c] = "wait" /\ cconn[c] = "open" /\ Owned(c) = {req[c]} /\ fut[c] = NewFuture
    /\ inputs = 6 /\ warned = <<"", NoId>>
    /\ \A s \in Scenes : sconn[s] = "open" /\ spc[s] = (IF s = 1 THEN "loop" ELSE "start")
    /\ \A x \in Others : hpc[x] = "start"

\* C11: the step that ends a control handler removes every entry the handler
\* owns and leaves its future cancelled, never resolved; afterwards the
\* handler owns nothing, and the entries and futures of the other control
\* connections are what they were.
C11_OwnEntriesCancelled ==
    [][\A c \in Clients :
          (mpc[c] # "done" /\ mpc'[c] = "done") =>
              /\ \A r \in ReqIds :
                    pending[r] = c => pending'[r] = NoClient /\ fut'[c] = Cancelled
              /\ \A r \in ReqIds : pending'[r] # c
              /\ \A r \in ReqIds : pending[r] # c => pending'[r] = pending[r]
              /\ \A b \in Clients \ {c} : fut'[b] = fut[b]]_vars

\* witness of C11: a control handler has ended, its entry is gone and its
\* future cancelled, while the other control connection still owns the entry
\* of its own command and waits on an unresolved future
C11_Witness ==
    \E a \in Clients, b \in Clients :
        /\ a # b
        /\ mpc[a] = "done" /\ req[a] # NoId
        /\ fut[a] = Cancelled /\ pending[req[a]] = NoClient
        /\ mpc[b] = "wait" /\ pending[req[b]] = b /\ fut[b] = NewFuture

\* C12: a connection whose handshake times out, does not parse or names an
\* unknown role is closed with 4000, 4001 and 4002 respectively; no step of
\* its handler changes the slot, the table, a future, the lock or anything a
\* scene or control handler holds, and once closed the handler takes no
\* further step.
C12_HandshakeFailureIsolated ==
    [][\A x \in Others :
          /\ hpc'[x] # hpc[x] =>
                UNCHANGED <<slotVars, pending, fut, lockVars, sceneVars, clientVars>>
          /\ hpc[x] = "closing" /\ hpc'[x] # "closing" =>
                /\ hpc'[x] = "done"
                /\ hfail[x] = "timeout" => hcode'[x] = 4000
                /\ hfail[x] = "invalid" => hcode'[x] = 4001
                /\ hfail[x] = "unknown role" => hcode'[x] = 4002
          /\ hpc[x] = "done" => UNCHANGED <<hpc, hfail, hcode>>]_vars

\* witness of C12: a connection was closed for an unparseable handshake while
\* a scene occupies the slot and a forwarded command is waiting in the table
C12_Witness ==
    \E x \in Others, c \in Clients :
        /\ hpc[x] = "done" /\ hfail[x] = "invalid" /\ hcode[x] = 4001
        /\ scene # NoScene /\ spc[scene] = "loop"
        /\ mpc[c] = "wait" /\ pending[req[c]] = c /\ fut[c] = NewFuture

\* a steady-state frame that is not a message with a requestId
Malformed(m) == ~m.parses \/ ~m.object \/ m.requestId = NoId

\* C13: a malformed frame from the scene leaves the slot, the scene's handler
\* and connection, the table and the futures as they were; a malformed frame
\* from a control client registers nothing, forwards nothing and takes the
\* handler to the send of one local error, after which the handler is back at
\* the top of its loop (or has ended because the client is gone).
C13_MalformedNotFatal ==
    [][/\ \A s \in Scenes, m \in SceneFrames :
             (SceneRecv(s, m) /\ Malformed(m)) =>
                 UNCHANGED <<slotVars, pending, fut, spc, sconn>>
       /\ \A c \in Clients, m \in ClientFrames :
             (McpRecv(c, m) /\ Malformed(m)) =>
                 /\ mpc'[c] \in {"invalid_send", "missing_send"}
                 /\ UNCHANGED <<pending, fut, dest>>
       /\ \A c \in Clients :
             (mpc[c] \in {"invalid_send", "missing_send"} /\ mpc'[c] # mpc[c]) =>
                 /\ UNCHANGED <<pending, fut, dest>>
                 /\ \/ mpc'[c] = "idle" /\ got'[c] \in {<<InvalidPayload>>, <<MissingRequestId>>}
                    \/ mpc'[c] = "done" /\ cconn[c] = "closed"]_vars

\* C14: a future that is resolved or cancelled keeps its state and result
\* until its handler creates the future of its next command, and the scene
\* read loop never finds, under the id of a frame, an entry whose future is
\* already resolved or cancelled (line 105 would then call set_result on it).
C14_SingleAssignment ==
    [][/\ \A c \in Clients :
             (FutureDone(fut[c]) /\ fut'[c] # fut[c]) =>
                 fut'[c] = NewFuture /\ mpc[c] = "idle" /\ mpc'[c] = "forward"
       /\ \A s \in Scenes, m \in SceneFrames :
             (SceneRecv(s, m) /\ ~Malformed(m) /\ Lookup(pending, m.requestId) # NoClient) =>
                 ~FutureDone(fut[Lookup(pending, m.requestId)])]_vars

\* C15: a forward to a scene connection that is closed takes the handler to
\* the send of the error reply without anything sent before; when that send
\* is over the client holds the disconnect error of the command's id and
\* nothing else (or is gone), and the handler owns no entry under that id,
\* whether or not the scene's flush ran in between.
C15_ForwardFailure ==
    [][\A c \in Clients :
          /\ (mpc[c] = "forward" /\ mpc'[c] # "forward" /\ sconn[dest[c]] = "closed") =>
                mpc'[c] = "fail_send" /\ got'[c] = <<>>
          /\ (mpc[c] = "fail_send" /\ mpc'[c] = "fail_send") => got'[c] = <<>>
          /\ (mpc[c] = "fail_send" /\ mpc'[c] # "fail_send") =>
                /\ pending'[req[c]] # c
                /\ \/ mpc'[c] = "idle" /\ got'[c] = <<SceneDisconnected(req[c])>>
                                      /\ pending'[req[c]] = NoClient
                   \/ mpc'[c] = "done" /\ cconn[c] = "closed" /\ got'[c] = <<>>]_vars

\* witness of C15: the forwards of both control connections failed; one was
\* answered before the scene's handler flushed (its future is untouched), the
\* other is sending its error reply after the flush resolved its future
C15_Witness ==
    \E a \in Clients, b \in Clients :
        /\ a # b
        /\ mpc[a] = "idle" /\ got[a] = <<SceneDisconnected(req[a])>> /\ fut[a] = NewFuture
        /\ mpc[b] = "fail_send" /\ fut[b] = Resolved(SceneDisconnected(req[b]))
        /\ scene = NoScene
        /\ \A r \in ReqIds : pending[r] = NoClient

\* C16: the slot is emptied only by the step that ends the handler of the
\* connection it holds; the steps of a rejected connection and the end of
\* any handler whose connection is not in the slot leave the slot alone.
C16_ClearOnlyOwnSlot ==
    [][/\ (scene # NoScene /\ scene' # scene) =>
             scene' = NoScene /\ ~Ended(scene) /\ spc'[scene] \in {"done", "crashed"}
       /\ \A s \in Scenes :
             /\ (spc[s] \in {"reject_send", "reject_close"} /\ spc'[s] # spc[s]) =>
                   UNCHANGED slotVars
             /\ (~Ended(s) /\ spc'[s] \in {"done", "crashed"} /\ scene # s) =>
                   UNCHANGED slotVars]_vars

\* witness of C16: a first scene was admitted and has gone, a second one
\* occupies the slot, and a third one was rejected and closed without the
\* slot being emptied
C16_Witness ==
    \E s1 \in Scenes, s2 \in Scenes, s3 \in Scenes :
        /\ spc[s1] = "done" /\ sack[s1] = "ready"
        /\ scene = s2 /\ s2 # s1 /\ spc[s2] = "loop" /\ scene_id = SceneIdOf(s2)
        /\ spc[s3] = "done" /\ sack[s3] = "error" /\ sconn[s3] = "closed"

\* C17: while a scene handler holds self.scene_lock across a suspension, no
\* other task changes the pending table or reads the slot to decide whether
\* to forward a command: a task that took the guard for these would have to
\* wait for the holder.
C17_GuardedAccess ==
    [][lockOwner # NoScene =>
          /\ pending' = pending
          /\ \A c \in Clients, m \in ClientFrames : McpRecv(c, m) => Malformed(m)]_vars

\* the command of a is unanswered and its entry was overwritten: its future
\* is unresolved and the table holds no entry of a under its id
Overwritten(a) ==
    /\ mpc[a] \in {"forward", "wait"}
    /\ fut[a] = NewFuture
    /\ pending[req[a]] # a

\* the registration of a command under an id that has an entry of another
\* control connection is not rejected: the entry becomes the newcomer's
OverwriteAccepted ==
    \A b \in Clients, m \in ClientFrames :
        (McpRecv(b, m) /\ ~Malformed(m) /\ scene # NoScene
                       /\ pending[m.requestId] \notin {b, NoClient}) =>
            /\ pending'[m.requestId] = b /\ mpc'[b] = "forward"
            /\ fut'[pending[m.requestId]] = fut[pending[m.requestId]]

\* C18 as stated: a command under the id of another connection's entry takes
\* the entry over, and from then on the future of the overwritten command is
\* changed by its own timer alone and the command is ended by that timer
\* alone.
C18_OverwrittenEndsByTimeoutOnly ==
    [][/\ OverwriteAccepted
       /\ \A a \in Clients :
             Overwritten(a) =>
                 /\ fut'[a] # fut[a] => McpTimeout(a)
                 /\ mpc'[a] \notin {"forward", "wait"} => McpTimeout(a)]_vars

\* C18 amended: as above, except that an overwritten command whose forward
\* is still suspended is also ended by the failure of that forward, which
\* leaves its future unresolved.
C18_OverwrittenEnds ==
    [][/\ OverwriteAccepted
       /\ \A a \in Clients :
             Overwritten(a) =>
                 /\ fut'[a] # fut[a] => McpTimeout(a)
                 /\ mpc'[a] \notin {"forward", "wait"} =>
                       \/ McpTimeout(a)
                       \/ /\ mpc[a] = "forward" /\ sconn[dest[a]] = "closed"
                          /\ mpc'[a] = "fail_send"]_vars

\* witness of C18: both connections sent the same id; the scene's reply went
\* to the second one, the entry is gone, and the first one still waits on an
\* unresolved future
C18_Witness ==
    \E a \in Clients, b \in Clients :
        /\ a # b /\ req[a] = req[b]
        /\ mpc[a] = "wait" /\ fut[a] = NewFuture
        /\ fut[b] \in {Resolved(m) : m \in SceneReplies(req[b])}
        /\ pending[req[a]] = NoClient

C20_NoLeak ==
    /\ \A r \in ReqIds :
          pending[r] # NoClient =>
              /\ mpc[pending[r]] \in {"forward", "wait", "fail_send", "timeout_send", "response_send"}
              /\ req[pending[r]] = r
    /\ (\A c \in Clients : ~InFlight(c)) => \A r \in ReqIds : pending[r] = NoClient

\* witness of C20: one command ended by its timeout, the other by a scene
\* reply; both handlers are back at the top of their loops with the
\* connections open, and the table is empty
C20_Witness ==
    \E a \in Clients, b \in Clients :
        /\ a # b
        /\ mpc[a] = "idle" /\ got[a] = <<TimedOut(req[a])>>
        /\ mpc[b] = "idle" /\ got[b] \in {<<m>> : m \in SceneReplies(req[b])}
        /\ \A r \in ReqIds : pending[r] = NoClient

====
